---- MODULE Spec2Model ----
(***************************************************************************)
(* A model of the DAG engine of src/app/etl/dag.py: graph construction     *)
(* (add_task), Kahn's topological sort (_topological_sort), the run loop   *)
(* (run) with the node state it mutates in place, and to_dict; and of the  *)
(* patient ingestion pipeline of src/app/etl/pipeline.py, whose five       *)
(* steps run on that engine.                                               *)
(*                                                                         *)
(* self.tasks is a Python dict: it keeps insertion order, so it is a       *)
(* sequence of node records here.  Mappings (context, result, a patient    *)
(* record) are functions from their keys.                                  *)
(***************************************************************************)
EXTENDS Integers, Sequences, FiniteSets, TLC

\* ------------------------------------------------------------------ bounds

\* The names a node or a dependency may carry, in the order fresh names are
\* handed out: the i-th node added to a graph is called NameSeq[i] (names are
\* plain identifiers, so this loses no graph up to renaming).  A dependency
\* may be any of them, so it can name the node itself, a node added later, or
\* (in a graph of fewer than three nodes) a node never added.
NameSeq == <<"a", "b", "c">>

Names == {NameSeq[i] : i \in DOMAIN NameSeq}

\* The longest depends_on list handed to add_task, and the most entries the
\* depends_on lists of one graph hold together.
MaxDeps == 2

MaxEdges == 3

\* Declared dependency lists: every sequence over Names of at most MaxDeps
\* entries, repeated names included.
DepLists == UNION {[1..m -> Names] : m \in 0..MaxDeps}

\* The one key the task logic below reads and writes, and the initial contexts
\* handed to run().
Keys == {"k"}

EmptyMap == [x \in {} |-> 0]

InitialContexts == {EmptyMap, [x \in Keys |-> 0]}

\* None, for TaskNode.error.
None == "None"

\* ------------------------------------- patient ingestion (pipeline.py)

\* The most records of one batch.
MaxBatch == 2

\* The values of a record.  A Python value is modelled with its type: a str
\* is the sequence of its characters, None is Null, a bool and a dict are
\* themselves.  A record (a dict) is a mapping from property names to such
\* values.
Str(chars) == [type |-> "string", value |-> chars]

Null == [type |-> "null", value |-> <<>>]

Bool(b) == [type |-> "boolean", value |-> b]

Obj(fields) == [type |-> "object", value |-> fields]

\* `not v`: None, "", False and {} are false.
Falsy(v) ==
    \/ v.type = "null"
    \/ v.type = "string" /\ v.value = <<>>
    \/ v.type = "boolean" /\ v.value = FALSE
    \/ v.type = "object" /\ DOMAIN v.value = {}

\* str() of the AttributeError of v.get on a value that is no dict, and of
\* v.encode on a value that is no str.
NoGet(v) ==
    CASE v.type = "null" -> "'NoneType' object has no attribute 'get'"
      [] v.type = "string" -> "'str' object has no attribute 'get'"
      [] v.type = "boolean" -> "'bool' object has no attribute 'get'"

NoEncode(v) ==
    CASE v.type = "null" -> "'NoneType' object has no attribute 'encode'"
      [] v.type = "boolean" -> "'bool' object has no attribute 'encode'"
      [] v.type = "object" -> "'dict' object has no attribute 'encode'"

\* The strings the records are made of.
Patient == <<"P", "a", "t", "i", "e", "n", "t">>

Mrn(d) == <<"M", "R", "N", "-", d>>

JaneDoe == <<"J", "a", "n", "e", " ", "D", "o", "e">>

Female == <<"f", "e", "m", "a", "l", "e">>

IsoDate == <<"1", "9", "9", "0", "-", "0", "1", "-", "1", "5">>

UsDate == <<"0", "1", "/", "1", "5", "/", "1", "9", "9", "0">>

Consent(data_sharing) ==
    Obj([data_sharing |-> Bool(data_sharing), research |-> Bool(FALSE)])

\* The records a batch is made of, after those of the tests and of the
\* ingest route:
\*   MRN-1  _make_patient(): complete, data_sharing true
\*   MRN-2  _make_patient(consent_sharing=False)
\*   MRN-3  test_mixed_batch's third: name missing, consent missing
\*   MRN-4  test_valid_patient's: complete but for consent, which is missing
\*   MRN-6  test_invalid_date_format's, with consent: birthDate 01/15/1990
\*   MRN-7  model_dump() of a PatientRecord given mrn, name and consent only:
\*          birthDate, gender and ssn are None
Records ==
    { [resourceType |-> Str(Patient), mrn |-> Str(Mrn("1")), name |-> Str(JaneDoe),
       birthDate |-> Str(IsoDate), gender |-> Str(Female), consent |-> Consent(TRUE)],
      [resourceType |-> Str(Patient), mrn |-> Str(Mrn("2")), name |-> Str(JaneDoe),
       birthDate |-> Str(IsoDate), gender |-> Str(Female), consent |-> Consent(FALSE)],
      [resourceType |-> Str(Patient), mrn |-> Str(Mrn("3"))],
      [resourceType |-> Str(Patient), mrn |-> Str(Mrn("4")), name |-> Str(JaneDoe),
       birthDate |-> Str(IsoDate), gender |-> Str(Female)],
      [resourceType |-> Str(Patient), mrn |-> Str(Mrn("6")), name |-> Str(JaneDoe),
       birthDate |-> Str(UsDate), consent |-> Consent(TRUE)],
      [resourceType |-> Str(Patient), mrn |-> Str(Mrn("7")), name |-> Str(JaneDoe),
       birthDate |-> Null, gender |-> Null, ssn |-> Null,
       consent |-> Obj([data_sharing |-> Bool(TRUE)])] }

Batches == UNION {[1..n -> Records] : n \in 0..MaxBatch}

\* A raw_records value that is no list (None): a value len() raises on.  It
\* is the one mapping here with 0 in its domain, which no list has.
NotAList == [x \in {0} |-> None]

IsSized(v) == 0 \notin DOMAIN v

\* The contexts handed to the pipeline's run: a batch under "raw_records",
\* no "raw_records" at all, or a value that is no list.
PipelineContexts ==
    {[raw_records |-> b] : b \in Batches} \cup {EmptyMap, [raw_records |-> NotAList]}

\* d.get(key, default).
Get(d, key, default) == IF key \in DOMAIN d THEN d[key] ELSE default

\* FHIR_PATIENT_SCHEMA: required, properties (with type, const, minLength,
\* pattern, enum), additionalProperties.
SchemaRequired == {"resourceType", "mrn", "name"}

SchemaProperties ==
    {"resourceType", "mrn", "name", "birthDate", "gender", "ssn", "consent"}

\* "type" of each property, and of the properties of consent.
SchemaType ==
    [f \in SchemaProperties |-> IF f = "consent" THEN "object" ELSE "string"]

ConsentProperties == {"data_sharing", "research"}

GenderEnum ==
    { Str(<<"m", "a", "l", "e">>), Str(Female), Str(<<"o", "t", "h", "e", "r">>),
      Str(<<"u", "n", "k", "n", "o", "w", "n">>) }

\* The patterns ^\d{4}-\d{2}-\d{2}$ and ^\d{3}-\d{2}-\d{4}$, character by
\* character: "d" stands for \d, "-" for itself.
SchemaPattern ==
    [f \in {"birthDate", "ssn"} |->
        IF f = "birthDate"
        THEN <<"d", "d", "d", "d", "-", "d", "d", "-", "d", "d">>
        ELSE <<"d", "d", "d", "-", "d", "d", "-", "d", "d", "d", "d">>]

\* The characters \d matches in a str pattern (re without re.ASCII): the
\* decimal digits of every script, Unicode category Nd (unicodedata 14.0.0).
\* A character outside ASCII is written by its code point.
Digits ==
    { "0", "1", "2", "3", "4", "5", "6", "7", "8", "9",
      "U+0660", "U+0661", "U+0662", "U+0663", "U+0664", "U+0665", "U+0666", "U+0667",
      "U+0668", "U+0669", "U+06F0", "U+06F1", "U+06F2", "U+06F3", "U+06F4", "U+06F5",
      "U+06F6", "U+06F7", "U+06F8", "U+06F9", "U+07C0", "U+07C1", "U+07C2", "U+07C3",
      "U+07C4", "U+07C5", "U+07C6", "U+07C7", "U+07C8", "U+07C9", "U+0966", "U+0967",
      "U+0968", "U+0969", "U+096A", "U+096B", "U+096C", "U+096D", "U+096E", "U+096F",
      "U+09E6", "U+09E7", "U+09E8", "U+09E9", "U+09EA", "U+09EB", "U+09EC", "U+09ED",
      "U+09EE", "U+09EF", "U+0A66", "U+0A67", "U+0A68", "U+0A69", "U+0A6A", "U+0A6B",
      "U+0A6C", "U+0A6D", "U+0A6E", "U+0A6F", "U+0AE6", "U+0AE7", "U+0AE8", "U+0AE9",
      "U+0AEA", "U+0AEB", "U+0AEC", "U+0AED", "U+0AEE", "U+0AEF", "U+0B66", "U+0B67",
      "U+0B68", "U+0B69", "U+0B6A", "U+0B6B", "U+0B6C", "U+0B6D", "U+0B6E", "U+0B6F",
      "U+0BE6", "U+0BE7", "U+0BE8", "U+0BE9", "U+0BEA", "U+0BEB", "U+0BEC", "U+0BED",
      "U+0BEE", "U+0BEF", "U+0C66", "U+0C67", "U+0C68", "U+0C69", "U+0C6A", "U+0C6B",
      "U+0C6C", "U+0C6D", "U+0C6E", "U+0C6F", "U+0CE6", "U+0CE7", "U+0CE8", "U+0CE9",
      "U+0CEA", "U+0CEB", "U+0CEC", "U+0CED", "U+0CEE", "U+0CEF", "U+0D66", "U+0D67",
      "U+0D68", "U+0D69", "U+0D6A", "U+0D6B", "U+0D6C", "U+0D6D", "U+0D6E", "U+0D6F",
      "U+0DE6", "U+0DE7", "U+0DE8", "U+0DE9", "U+0DEA", "U+0DEB", "U+0DEC", "U+0DED",
      "U+0DEE", "U+0DEF", "U+0E50", "U+0E51", "U+0E52", "U+0E53", "U+0E54", "U+0E55",
      "U+0E56", "U+0E57", "U+0E58", "U+0E59", "U+0ED0", "U+0ED1", "U+0ED2", "U+0ED3",
      "U+0ED4", "U+0ED5", "U+0ED6", "U+0ED7", "U+0ED8", "U+0ED9", "U+0F20", "U+0F21",
      "U+0F22", "U+0F23", "U+0F24", "U+0F25", "U+0F26", "U+0F27", "U+0F28", "U+0F29",
      "U+1040", "U+1041", "U+1042", "U+1043", "U+1044", "U+1045", "U+1046", "U+1047",
      "U+1048", "U+1049", "U+1090", "U+1091", "U+1092", "U+1093", "U+1094", "U+1095",
      "U+1096", "U+1097", "U+1098", "U+1099", "U+17E0", "U+17E1", "U+17E2", "U+17E3",
      "U+17E4", "U+17E5", "U+17E6", "U+17E7", "U+17E8", "U+17E9", "U+1810", "U+1811",
      "U+1812", "U+1813", "U+1814", "U+1815", "U+1816", "U+1817", "U+1818", "U+1819",
      "U+1946", "U+1947", "U+1948", "U+1949", "U+194A", "U+194B", "U+194C", "U+194D",
      "U+194E", "U+194F", "U+19D0", "U+19D1", "U+19D2", "U+19D3", "U+19D4", "U+19D5",
      "U+19D6", "U+19D7", "U+19D8", "U+19D9", "U+1A80", "U+1A81", "U+1A82", "U+1A83",
      "U+1A84", "U+1A85", "U+1A86", "U+1A87", "U+1A88", "U+1A89", "U+1A90", "U+1A91",
      "U+1A92", "U+1A93", "U+1A94", "U+1A95", "U+1A96", "U+1A97", "U+1A98", "U+1A99",
      "U+1B50", "U+1B51", "U+1B52", "U+1B53", "U+1B54", "U+1B55", "U+1B56", "U+1B57",
      "U+1B58", "U+1B59", "U+1BB0", "U+1BB1", "U+1BB2", "U+1BB3", "U+1BB4", "U+1BB5",
      "U+1BB6", "U+1BB7", "U+1BB8", "U+1BB9", "U+1C40", "U+1C41", "U+1C42", "U+1C43",
      "U+1C44", "U+1C45", "U+1C46", "U+1C47", "U+1C48", "U+1C49", "U+1C50", "U+1C51",
      "U+1C52", "U+1C53", "U+1C54", "U+1C55", "U+1C56", "U+1C57", "U+1C58", "U+1C59",
      "U+A620", "U+A621", "U+A622", "U+A623", "U+A624", "U+A625", "U+A626", "U+A627",
      "U+A628", "U+A629", "U+A8D0", "U+A8D1", "U+A8D2", "U+A8D3", "U+A8D4", "U+A8D5",
      "U+A8D6", "U+A8D7", "U+A8D8", "U+A8D9", "U+A900", "U+A901", "U+A902", "U+A903",
      "U+A904", "U+A905", "U+A906", "U+A907", "U+A908", "U+A909", "U+A9D0", "U+A9D1",
      "U+A9D2", "U+A9D3", "U+A9D4", "U+A9D5", "U+A9D6", "U+A9D7", "U+A9D8", "U+A9D9",
      "U+A9F0", "U+A9F1", "U+A9F2", "U+A9F3", "U+A9F4", "U+A9F5", "U+A9F6", "U+A9F7",
      "U+A9F8", "U+A9F9", "U+AA50", "U+AA51", "U+AA52", "U+AA53", "U+AA54", "U+AA55",
      "U+AA56", "U+AA57", "U+AA58", "U+AA59", "U+ABF0", "U+ABF1", "U+ABF2", "U+ABF3",
      "U+ABF4", "U+ABF5", "U+ABF6", "U+ABF7", "U+ABF8", "U+ABF9", "U+FF10", "U+FF11",
      "U+FF12", "U+FF13", "U+FF14", "U+FF15", "U+FF16", "U+FF17", "U+FF18", "U+FF19",
      "U+104A0", "U+104A1", "U+104A2", "U+104A3", "U+104A4", "U+104A5", "U+104A6", "U+104A7",
      "U+104A8", "U+104A9", "U+10D30", "U+10D31", "U+10D32", "U+10D33", "U+10D34", "U+10D35",
      "U+10D36", "U+10D37", "U+10D38", "U+10D39", "U+11066", "U+11067", "U+11068", "U+11069",
      "U+1106A", "U+1106B", "U+1106C", "U+1106D", "U+1106E", "U+1106F", "U+110F0", "U+110F1",
      "U+110F2", "U+110F3", "U+110F4", "U+110F5", "U+110F6", "U+110F7", "U+110F8", "U+110F9",
      "U+11136", "U+11137", "U+11138", "U+11139", "U+1113A", "U+1113B", "U+1113C", "U+1113D",
      "U+1113E", "U+1113F", "U+111D0", "U+111D1", "U+111D2", "U+111D3", "U+111D4", "U+111D5",
      "U+111D6", "U+111D7", "U+111D8", "U+111D9", "U+112F0", "U+112F1", "U+112F2", "U+112F3",
      "U+112F4", "U+112F5", "U+112F6", "U+112F7", "U+112F8", "U+112F9", "U+11450", "U+11451",
      "U+11452", "U+11453", "U+11454", "U+11455", "U+11456", "U+11457", "U+11458", "U+11459",
      "U+114D0", "U+114D1", "U+114D2", "U+114D3", "U+114D4", "U+114D5", "U+114D6", "U+114D7",
      "U+114D8", "U+114D9", "U+11650", "U+11651", "U+11652", "U+11653", "U+11654", "U+11655",
      "U+11656", "U+11657", "U+11658", "U+11659", "U+116C0", "U+116C1", "U+116C2", "U+116C3",
      "U+116C4", "U+116C5", "U+116C6", "U+116C7", "U+116C8", "U+116C9", "U+11730", "U+11731",
      "U+11732", "U+11733", "U+11734", "U+11735", "U+11736", "U+11737", "U+11738", "U+11739",
      "U+118E0", "U+118E1", "U+118E2", "U+118E3", "U+118E4", "U+118E5", "U+118E6", "U+118E7",
      "U+118E8", "U+118E9", "U+11950", "U+11951", "U+11952", "U+11953", "U+11954", "U+11955",
      "U+11956", "U+11957", "U+11958", "U+11959", "U+11C50", "U+11C51", "U+11C52", "U+11C53",
      "U+11C54", "U+11C55", "U+11C56", "U+11C57", "U+11C58", "U+11C59", "U+11D50", "U+11D51",
      "U+11D52", "U+11D53", "U+11D54", "U+11D55", "U+11D56", "U+11D57", "U+11D58", "U+11D59",
      "U+11DA0", "U+11DA1", "U+11DA2", "U+11DA3", "U+11DA4", "U+11DA5", "U+11DA6", "U+11DA7",
      "U+11DA8", "U+11DA9", "U+16A60", "U+16A61", "U+16A62", "U+16A63", "U+16A64", "U+16A65",
      "U+16A66", "U+16A67", "U+16A68", "U+16A69", "U+16AC0", "U+16AC1", "U+16AC2", "U+16AC3",
      "U+16AC4", "U+16AC5", "U+16AC6", "U+16AC7", "U+16AC8", "U+16AC9", "U+16B50", "U+16B51",
      "U+16B52", "U+16B53", "U+16B54", "U+16B55", "U+16B56", "U+16B57", "U+16B58", "U+16B59",
      "U+1D7CE", "U+1D7CF", "U+1D7D0", "U+1D7D1", "U+1D7D2", "U+1D7D3", "U+1D7D4", "U+1D7D5",
      "U+1D7D6", "U+1D7D7", "U+1D7D8", "U+1D7D9", "U+1D7DA", "U+1D7DB", "U+1D7DC", "U+1D7DD",
      "U+1D7DE", "U+1D7DF", "U+1D7E0", "U+1D7E1", "U+1D7E2", "U+1D7E3", "U+1D7E4", "U+1D7E5",
      "U+1D7E6", "U+1D7E7", "U+1D7E8", "U+1D7E9", "U+1D7EA", "U+1D7EB", "U+1D7EC", "U+1D7ED",
      "U+1D7EE", "U+1D7EF", "U+1D7F0", "U+1D7F1", "U+1D7F2", "U+1D7F3", "U+1D7F4", "U+1D7F5",
      "U+1D7F6", "U+1D7F7", "U+1D7F8", "U+1D7F9", "U+1D7FA", "U+1D7FB", "U+1D7FC", "U+1D7FD",
      "U+1D7FE", "U+1D7FF", "U+1E140", "U+1E141", "U+1E142", "U+1E143", "U+1E144", "U+1E145",
      "U+1E146", "U+1E147", "U+1E148", "U+1E149", "U+1E2F0", "U+1E2F1", "U+1E2F2", "U+1E2F3",
      "U+1E2F4", "U+1E2F5", "U+1E2F6", "U+1E2F7", "U+1E2F8", "U+1E2F9", "U+1E950", "U+1E951",
      "U+1E952", "U+1E953", "U+1E954", "U+1E955", "U+1E956", "U+1E957", "U+1E958", "U+1E959",
      "U+1FBF0", "U+1FBF1", "U+1FBF2", "U+1FBF3", "U+1FBF4", "U+1FBF5", "U+1FBF6", "U+1FBF7",
      "U+1FBF8", "U+1FBF9" }

\* re.search(pattern, chars) for such a pattern: every character is of the
\* class the pattern names at its place; $ also matches before one newline
\* at the end of the string.
Matches(pattern, chars) ==
    LET n == Len(pattern)
        body == IF Len(chars) = n + 1 /\ chars[n + 1] = "\n"
                THEN SubSeq(chars, 1, n) ELSE chars
    IN  /\ Len(body) = n
        /\ \A i \in 1..n :
              IF pattern[i] = "d" THEN body[i] \in Digits ELSE body[i] = pattern[i]

\* validate_against_schema(record, FHIR_PATIENT_SCHEMA): the errors of the
\* Draft 7 validator, each as <<keyword, property>> (the order of the list
\* is the validator's own and is not used by the pipeline).  const and enum
\* compare values of any type; minLength and pattern look at strings only,
\* properties at objects only.
ValidateAgainstSchema(record) ==
    LET present == DOMAIN record \cap SchemaProperties
        consent == Get(record, "consent", Null)
        fields == IF consent.type = "object"
                  THEN DOMAIN consent.value \cap ConsentProperties ELSE {}
    IN  {<<"required", f>> : f \in SchemaRequired \ DOMAIN record}
        \cup {<<"additionalProperties", f>> : f \in DOMAIN record \ SchemaProperties}
        \cup {<<"type", f>> : f \in {g \in present : record[g].type # SchemaType[g]}}
        \cup {<<"const", f>> : f \in {g \in {"resourceType"} \cap present :
                                          record[g] # Str(Patient)}}
        \cup {<<"minLength", f>> : f \in {g \in {"mrn", "name"} \cap present :
                                              /\ record[g].type = "string"
                                              /\ Len(record[g].value) < 1}}
        \cup {<<"pattern", f>> : f \in {g \in DOMAIN SchemaPattern \cap present :
                                            /\ record[g].type = "string"
                                            /\ ~Matches(SchemaPattern[g], record[g].value)}}
        \cup {<<"enum", f>> : f \in {g \in {"gender"} \cap present :
                                         record[g] \notin GenderEnum}}
        \cup {<<"type", f>> : f \in {g \in fields : consent.value[g].type # "boolean"}}

\* A validate step that lets every record pass.
HasErrors_Never(errors) == FALSE

\* `if errors:` on the list returned.
HasErrors(errors) == errors # {}

\* A gate that only stops an explicit false.
DataSharingIsTrue_NotFalse(consent) ==
    "data_sharing" \notin DOMAIN consent.value
        \/ consent.value["data_sharing"] # Bool(FALSE)

\* consent.get("data_sharing") is True, for a consent that is a dict.
DataSharingIsTrue(consent) ==
    "data_sharing" \in DOMAIN consent.value
        /\ consent.value["data_sharing"] = Bool(TRUE)

\* EncryptionService.encrypt: "" for a false plaintext, a Fernet token
\* otherwise.  The token is a string that names its plaintext (decrypt gives
\* it back; the random IV and the timestamp are left out).
Encrypt(plaintext) ==
    IF Falsy(plaintext) THEN Str(<<>>) ELSE Str(<<"fernet:">> \o plaintext.value)

\* What a step that returns the mapping value does, as Apply below.
Returns(value) == [raised |-> FALSE, exc |-> None, none |-> FALSE, value |-> value]

Raises(exc) == [raised |-> TRUE, exc |-> exc, none |-> FALSE, value |-> EmptyMap]

\* extract.
Extract(ctx) ==
    LET raw_records == Get(ctx, "raw_records", <<>>)
    IN  IF IsSized(raw_records)
        THEN Returns([extracted_records |-> raw_records,
                      extract_count |-> Len(raw_records)])
        ELSE Raises("object of type 'NoneType' has no len()")

\* The for loop of validate, from record i on.
RECURSIVE ValidateLoop(_, _, _, _)
ValidateLoop(records, i, valid, invalid) ==
    IF i > Len(records) THEN [valid |-> valid, invalid |-> invalid]
    ELSE LET errors == ValidateAgainstSchema(records[i])
         IN  IF HasErrors(errors)
             THEN ValidateLoop(records, i + 1, valid,
                               Append(invalid, [record |-> records[i], errors |-> errors]))
             ELSE ValidateLoop(records, i + 1, Append(valid, records[i]), invalid)

\* validate.
Validate(ctx) ==
    LET r == ValidateLoop(Get(ctx, "extracted_records", <<>>), 1, <<>>, <<>>)
    IN  Returns([valid_records |-> r.valid, validation_errors |-> r.invalid,
                 valid_count |-> Len(r.valid)])

\* The for loop of check_consent, from record i on: consent.get raises
\* AttributeError on a consent that is no dict.
RECURSIVE ConsentLoop(_, _, _, _)
ConsentLoop(records, i, consented, blocked) ==
    IF i > Len(records)
    THEN [raised |-> FALSE, exc |-> None, consented |-> consented, blocked |-> blocked]
    ELSE LET consent == Get(records[i], "consent", Obj(EmptyMap))
         IN  IF consent.type # "object"
             THEN [raised |-> TRUE,
                   exc |-> NoGet(consent),
                   consented |-> consented, blocked |-> blocked]
             ELSE IF DataSharingIsTrue(consent)
             THEN ConsentLoop(records, i + 1, Append(consented, records[i]), blocked)
             ELSE ConsentLoop(records, i + 1, consented,
                              Append(blocked, [mrn |-> Get(records[i], "mrn", Null),
                                               reason |-> "no data_sharing consent"]))

\* check_consent.
CheckConsent(ctx) ==
    LET r == ConsentLoop(Get(ctx, "valid_records", <<>>), 1, <<>>, <<>>)
    IN  IF r.raised THEN Raises(r.exc)
        ELSE Returns([consented_records |-> r.consented, consent_blocked |-> r.blocked,
                      consented_count |-> Len(r.consented)])

\* The mapping transform builds of one record.
Transformed(record) ==
    [mrn |-> record["mrn"],
     encrypted_name |-> Encrypt(Get(record, "name", Str(<<>>))),
     encrypted_dob |-> Encrypt(Get(record, "birthDate", Str(<<>>))),
     encrypted_ssn |-> IF ~Falsy(Get(record, "ssn", Null))
                       THEN Encrypt(record["ssn"]) ELSE Null,
     gender |-> Get(record, "gender", Null),
     resource_type |-> Str(Patient),
     fhir_resource |-> record]

\* What building that mapping raises: KeyError for record["mrn"], or the
\* AttributeError of plaintext.encode() on the first of name, birthDate and
\* ssn that is true and no str; None when it raises nothing.
TransformError(record) ==
    LET texts == <<Get(record, "name", Str(<<>>)), Get(record, "birthDate", Str(<<>>)),
                   Get(record, "ssn", Null)>>
        bad == {k \in 1..3 : ~Falsy(texts[k]) /\ texts[k].type # "string"}
    IN  IF "mrn" \notin DOMAIN record THEN "'mrn'"
        ELSE IF bad = {} THEN None
        ELSE NoEncode(texts[CHOOSE k \in bad : \A m \in bad : k <= m])

\* transform: the first record that cannot be built ends the step.
Transform(ctx) ==
    LET records == Get(ctx, "consented_records", <<>>)
        failing == {i \in DOMAIN records : TransformError(records[i]) # None}
    IN  IF failing # {}
        THEN Raises(TransformError(records[CHOOSE i \in failing : \A m \in failing : i <= m]))
        ELSE Returns([transformed_records |->
                          [i \in DOMAIN records |-> Transformed(records[i])],
                      transform_count |-> Len(records)])

\* load.
Load(ctx) ==
    LET records == Get(ctx, "transformed_records", <<>>)
    IN  Returns([loaded_records |-> records, load_count |-> Len(records)])

\* ------------------------------------------------------------- task logic

\* The callables given to add_task, after the bodies used in the tests (the
\* five steps of pipeline.py are given to it by the pipeline's factory only):
\*   none   lambda ctx: None
\*   put1   returns {"k": 1}             (step_a returns a constant mapping)
\*   inc    returns {"k": ctx["k"] + 1}  (as test_diamond_dag's lambdas: reads
\*          the context, and raises KeyError('k') when "k" is missing)
\* So a node fails when it reads a key that neither the initial context nor
\* the results merged so far hold.
Fns == {"none", "put1", "inc"}

\* What calling execute_fn(context) does: [raised, exc, none, value].  exc is
\* str(exception); none says that the call returned None, value is the
\* mapping it returned otherwise.
Apply(fn, ctx) ==
    CASE fn = "none"  -> [raised |-> FALSE, exc |-> None,
                          none |-> TRUE, value |-> EmptyMap]
      [] fn = "put1"  -> [raised |-> FALSE, exc |-> None,
                          none |-> FALSE, value |-> [x \in {"k"} |-> 1]]
      [] fn = "inc"   -> IF "k" \in DOMAIN ctx
                         THEN [raised |-> FALSE, exc |-> None, none |-> FALSE,
                               value |-> [x \in {"k"} |-> ctx["k"] + 1]]
                         ELSE [raised |-> TRUE, exc |-> "'k'",
                               none |-> FALSE, value |-> EmptyMap]
      [] fn = "extract"       -> Extract(ctx)
      [] fn = "validate"      -> Validate(ctx)
      [] fn = "check_consent" -> CheckConsent(ctx)
      [] fn = "transform"     -> Transform(ctx)
      [] fn = "load"          -> Load(ctx)

\* ------------------------------------------------------------- node state

\* An assignment where the code updates in place.
Update_Replace(c, r) == r

\* dict.update: the keys of r overwrite those of c.
Update(c, r) ==
    [x \in DOMAIN c \cup DOMAIN r |-> IF x \in DOMAIN r THEN r[x] ELSE c[x]]

\* A store that is lost.
MapPut_Forget(m, key, v) == m

\* m[key] = v.
MapPut(m, key, v) == [x \in DOMAIN m \cup {key} |-> IF x = key THEN v ELSE m[x]]

\* TaskNode(name=..., execute_fn=..., depends_on=...), the other fields at
\* their defaults.
TaskNode(name, fn, deps) ==
    [name |-> name, execute_fn |-> fn, depends_on |-> deps,
     status |-> "pending", result |-> EmptyMap, error |-> None]

Range(s) == {s[i] : i \in DOMAIN s}

TaskNames(ts) == {ts[i].name : i \in DOMAIN ts}

\* The position of node n in the dict, and the node itself: self.tasks[n].
IndexOf(ts, n) == CHOOSE i \in DOMAIN ts : ts[i].name = n

TaskOf(ts, n) == ts[IndexOf(ts, n)]

\* ------------------------------------------------------------------ errors

\* No exception.
NoError == [kind |-> "none", task |-> None, dep |-> None]

\* ValueError("Duplicate task name: ..."), "Cycle detected in DAG" and
\* "Task '...' depends on unknown task '...'", the last with the two names
\* it carries.
DuplicateError == [kind |-> "duplicate", task |-> None, dep |-> None]

CycleError == [kind |-> "cycle", task |-> None, dep |-> None]

UnknownError(task, dep) == [kind |-> "unknown", task |-> task, dep |-> dep]

\* ------------------------------------------------------ _topological_sort

\* A sort that never looks for unknown dependency names.
FirstUnknown_Never(ts, i, j) == [found |-> FALSE]

\* The first loop: walks the nodes in dict order and each node's depends_on
\* in list order, raising at the first dependency that is no node.  i is the
\* node's position, j the position in its depends_on.
RECURSIVE FirstUnknown(_, _, _)
FirstUnknown(ts, i, j) ==
    IF i > Len(ts) THEN [found |-> FALSE]
    ELSE IF j > Len(ts[i].depends_on) THEN FirstUnknown(ts, i + 1, 1)
    ELSE IF ts[i].depends_on[j] \notin TaskNames(ts)
         THEN [found |-> TRUE, task |-> ts[i].name, dep |-> ts[i].depends_on[j]]
         ELSE FirstUnknown(ts, i, j + 1)

\* in_degree after the first loop: one increment per entry of depends_on.
InDegree(ts) == [n \in TaskNames(ts) |-> Len(TaskOf(ts, n).depends_on)]

\* The seed of the queue: the nodes of in-degree 0, in dict order.
RECURSIVE SeedQueue(_, _, _)
SeedQueue(ts, deg, i) ==
    IF i > Len(ts) THEN <<>>
    ELSE (IF deg[ts[i].name] = 0 THEN <<ts[i].name>> ELSE <<>>)
         \o SeedQueue(ts, deg, i + 1)

\* An inner loop that puts a node that became ready at the head of the queue.
RECURSIVE Relax_Front(_, _, _, _, _)
Relax_Front(ts, current, i, queue, deg) ==
    IF i > Len(ts) THEN [queue |-> queue, deg |-> deg]
    ELSE IF current \in Range(ts[i].depends_on)
         THEN LET n == ts[i].name
                  d == [deg EXCEPT ![n] = @ - 1]
              IN  Relax_Front(ts, current, i + 1,
                              IF d[n] = 0 THEN <<n>> \o queue ELSE queue, d)
         ELSE Relax_Front(ts, current, i + 1, queue, deg)

\* The inner for loop of one emitted node: every node that lists current,
\* in dict order, loses one from its in-degree (once, however often it lists
\* it) and is appended to the queue when that reaches 0.
RECURSIVE Relax(_, _, _, _, _)
Relax(ts, current, i, queue, deg) ==
    IF i > Len(ts) THEN [queue |-> queue, deg |-> deg]
    ELSE IF current \in Range(ts[i].depends_on)
         THEN LET n == ts[i].name
                  d == [deg EXCEPT ![n] = @ - 1]
              IN  Relax(ts, current, i + 1,
                        IF d[n] = 0 THEN Append(queue, n) ELSE queue, d)
         ELSE Relax(ts, current, i + 1, queue, deg)

\* queue.pop(): the node queued last is the next node emitted.
PopIndex_Last(queue) == Len(queue)

\* queue.pop(0): the head of the queue is the next node emitted.
PopIndex(queue) == 1

\* The while loop.
RECURSIVE KahnLoop(_, _, _, _)
KahnLoop(ts, queue, order, deg) ==
    IF queue = <<>> THEN order
    ELSE LET p == PopIndex(queue)
             current == queue[p]
             rest == SubSeq(queue, 1, p - 1) \o SubSeq(queue, p + 1, Len(queue))
             r == Relax(ts, current, 1, rest, deg)
         IN  KahnLoop(ts, r.queue, Append(order, current), r.deg)

\* A sort that returns whatever it emitted.
CycleDetected_Never(ts, order) == FALSE

\* The test of line 99 on the emitted order.
CycleDetected(ts, order) == Len(order) # Len(ts)

\* A sort that looks for a cycle first and for unknown names afterwards.
TopologicalSort_CycleFirst(ts) ==
    LET deg == InDegree(ts)
        order == KahnLoop(ts, SeedQueue(ts, deg, 1), <<>>, deg)
        u == FirstUnknown(ts, 1, 1)
    IN  IF CycleDetected(ts, order)
        THEN [raised |-> TRUE, order |-> <<>>, error |-> CycleError]
        ELSE IF u.found
             THEN [raised |-> TRUE, order |-> <<>>, error |-> UnknownError(u.task, u.dep)]
             ELSE [raised |-> FALSE, order |-> order, error |-> NoError]

\* _topological_sort: [raised, error, order].
TopologicalSort(ts) ==
    LET u == FirstUnknown(ts, 1, 1)
    IN  IF u.found
        THEN [raised |-> TRUE, order |-> <<>>, error |-> UnknownError(u.task, u.dep)]
        ELSE LET deg == InDegree(ts)
                 order == KahnLoop(ts, SeedQueue(ts, deg, 1), <<>>, deg)
             IN  IF CycleDetected(ts, order)
                 THEN [raised |-> TRUE, order |-> <<>>, error |-> CycleError]
                 ELSE [raised |-> FALSE, order |-> order, error |-> NoError]

\* ------------------------------------------------------------------ state

VARIABLES
    tasks,            \* self.tasks: the nodes, in insertion order
    pc,               \* "idle": no call in progress; "loop": run is at the top
                      \* of its for loop; "exec": run is about to call execute_fn
    execution_order,  \* run's local: the order _topological_sort returned
    idx,              \* run's local: position of task_name in execution_order
    context,          \* run's local: dict(initial_context or {}) and the merges
    initial_context,  \* the caller's mapping, as passed to run
    summary,          \* run's local: the summary it builds and returns
    ret,              \* how the last call ended: [op, kind, error]
    before,           \* self.tasks at the entry of the last call, when that
                      \* raised or was a to_dict
    exec_log,         \* the nodes whose execute_fn was called in this run, in order
    seen,             \* the context each of them was called with
    past_runs,        \* what the runs of this graph returned, since its last
                      \* node was added (recorded under SpecRepeat only)
    definitions,      \* what the to_dict calls on this graph returned, since
                      \* its last node was added
    threads           \* the runs of two threads, each with its locals, on
                      \* this graph or on a graph of its own (under
                      \* SpecConcurrent only)

vars == <<tasks, pc, execution_order, idx, context, initial_context, summary,
          ret, before, exec_log, seen, past_runs, definitions, threads>>

NoSummary == [tasks |-> EmptyMap, status |-> None]

\* No thread but the caller's.
NoThreads == <<>>

\* A summary entry: {"status": "skipped"} has neither duration nor error.
Absent == "absent"

SkippedEntry == [status |-> "skipped", timed |-> FALSE, error |-> Absent]

TimedEntry(task) == [status |-> task.status, timed |-> TRUE, error |-> task.error]

Init ==
    /\ tasks = <<>>
    /\ pc = "idle"
    /\ execution_order = <<>>
    /\ idx = 0
    /\ context = EmptyMap
    /\ initial_context = EmptyMap
    /\ summary = NoSummary
    /\ ret = [op |-> "init", kind |-> "ok", error |-> NoError]
    /\ before = <<>>
    /\ exec_log = <<>>
    /\ seen = EmptyMap
    /\ past_runs = {}
    /\ definitions = {}
    /\ threads = NoThreads

\* The locals of a finished run are gone once the next call is made.
DropRunLocals ==
    /\ execution_order' = <<>>
    /\ idx' = 0
    /\ context' = EmptyMap
    /\ initial_context' = EmptyMap
    /\ summary' = NoSummary
    /\ exec_log' = <<>>
    /\ seen' = EmptyMap

\* ---------------------------------------------------------------- add_task

\* The entries of all depends_on lists of the graph together.
RECURSIVE Edges(_, _)
Edges(ts, i) == IF i > Len(ts) THEN 0 ELSE Len(ts[i].depends_on) + Edges(ts, i + 1)

\* Whether the graph may still grow by a node with these dependencies, and the
\* name of the next new node.
CanAdd(deps) ==
    /\ Len(tasks) < Len(NameSeq)
    /\ Edges(tasks, 1) + Len(deps) <= MaxEdges

FreshName == NameSeq[Len(tasks) + 1]

\* The arguments tried with a name that is already present: two calls that
\* differ in both, so that each node's own differ from one of them.
DuplicateArgs == {[fn |-> "none", deps |-> <<>>], [fn |-> "inc", deps |-> <<"a">>]}

\* An add_task without the test of line 69: the new node replaces the old.
TasksAfterDuplicate_Overwrite(ts, name, fn, deps) ==
    [ts EXCEPT ![IndexOf(ts, name)] = TaskNode(name, fn, deps)]

\* self.tasks after add_task(name, fn, deps) with a name already present:
\* the raise leaves the dict alone.
TasksAfterDuplicate(ts, name, fn, deps) == ts

\* add_task with a name that is already a key: raises ValueError.
AddTaskDuplicate(name, fn, deps) ==
    /\ pc = "idle"
    /\ name \in TaskNames(tasks)
    /\ tasks' = TasksAfterDuplicate(tasks, name, fn, deps)
    /\ ret' = [op |-> "add_task", kind |-> "raise", error |-> DuplicateError]
    /\ before' = tasks
    /\ DropRunLocals
    /\ UNCHANGED <<pc, past_runs, definitions, threads>>

\* add_task with a new name: the node is stored, nothing about depends_on is
\* checked.
AddTask(name, fn, deps) ==
    /\ pc = "idle"
    /\ name \notin TaskNames(tasks)
    /\ tasks' = Append(tasks, TaskNode(name, fn, deps))
    /\ ret' = [op |-> "add_task", kind |-> "ok", error |-> NoError]
    /\ before' = <<>>
    /\ past_runs' = {}
    /\ definitions' = {}
    /\ UNCHANGED threads
    /\ DropRunLocals
    /\ UNCHANGED pc

\* --------------------------------------------------------------------- run

\* An assignment to task.status that is lost.
SetStatus_Lost(ts, n, st) == ts

\* self.tasks with node n's fields changed.
SetStatus(ts, n, st) == [ts EXCEPT ![IndexOf(ts, n)].status = st]

\* self.tasks after a run whose _topological_sort raised.
TasksAfterRaise(ts) == ts

\* run, when _topological_sort raises: the ValueError reaches the caller
\* from line 108, before anything else is done.
RunRaises(ic) ==
    /\ pc = "idle"
    /\ LET s == TopologicalSort(tasks)
       IN  /\ s.raised
           /\ ret' = [op |-> "run", kind |-> "raise", error |-> s.error]
    /\ tasks' = TasksAfterRaise(tasks)
    /\ before' = tasks
    /\ DropRunLocals
    /\ UNCHANGED <<pc, past_runs, definitions, threads>>

\* run, lines 108-112: the order is computed, the context copied, the
\* summary started.
RunStart(ic) ==
    /\ pc = "idle"
    /\ LET s == TopologicalSort(tasks)
       IN  /\ ~s.raised
           /\ execution_order' = s.order
    /\ idx' = 1
    /\ context' = ic
    /\ initial_context' = ic
    /\ summary' = NoSummary
    /\ ret' = [op |-> "run", kind |-> "pending", error |-> NoError]
    /\ before' = <<>>
    /\ exec_log' = <<>>
    /\ seen' = EmptyMap
    /\ pc' = "loop"
    /\ UNCHANGED <<tasks, past_runs, definitions, threads>>

\* The statuses of a dependency that make its dependents skip.
SkipTriggers == {"failed"}

\* A test that looks at every node of the graph, not at the dependencies.
UpstreamFailed_AnyNode(ts, task) ==
    \E i \in DOMAIN ts : ts[i].status \in SkipTriggers

\* all() where the code says any().
UpstreamFailed_All(ts, task) ==
    \A i \in DOMAIN task.depends_on :
        TaskOf(ts, task.depends_on[i]).status \in SkipTriggers

\* upstream_failed, lines 118-120.
UpstreamFailed(ts, task) ==
    \E i \in DOMAIN task.depends_on :
        TaskOf(ts, task.depends_on[i]).status \in SkipTriggers

\* The merge walking depends_on from its last entry to its first.
RECURSIVE MergeDeps_Reversed(_, _, _, _)
MergeDeps_Reversed(ts, deps, i, ctx) ==
    IF i > Len(deps) THEN ctx
    ELSE MergeDeps_Reversed(ts, deps, i + 1,
                            Update(ctx, TaskOf(ts, deps[Len(deps) + 1 - i]).result))

\* The merge of lines 128-129: the results of the dependencies, in the
\* order of depends_on, folded into the context.
RECURSIVE MergeDeps(_, _, _, _)
MergeDeps(ts, deps, i, ctx) ==
    IF i > Len(deps) THEN ctx
    ELSE MergeDeps(ts, deps, i + 1, Update(ctx, TaskOf(ts, deps[i]).result))

CurrentName == execution_order[idx]

\* A run whose context is the caller's mapping itself: context.update
\* writes into it.
CallerMapping_Alias(ic, ctx) == ctx

\* The caller's mapping after context.update of line 129: line 109 made
\* context a new dict, so the update does not reach the mapping passed in.
CallerMapping(ic, ctx) == ic

\* One pass of the for loop for a node with a failed dependency, lines
\* 115-125.
Skip ==
    /\ pc = "loop"
    /\ idx <= Len(execution_order)
    /\ UpstreamFailed(tasks, TaskOf(tasks, CurrentName))
    /\ tasks' = SetStatus(tasks, CurrentName, "skipped")
    /\ summary' = [summary EXCEPT !.tasks = MapPut(@, CurrentName, SkippedEntry)]
    /\ idx' = idx + 1
    /\ UNCHANGED <<pc, execution_order, context, initial_context, ret, before,
                   exec_log, seen, past_runs, definitions, threads>>

\* Lines 115-134 for a node that is not skipped: the merge, then RUNNING.
Begin ==
    /\ pc = "loop"
    /\ idx <= Len(execution_order)
    /\ ~UpstreamFailed(tasks, TaskOf(tasks, CurrentName))
    /\ context' = MergeDeps(tasks, TaskOf(tasks, CurrentName).depends_on, 1, context)
    /\ initial_context' = CallerMapping(initial_context, context')
    /\ tasks' = SetStatus(tasks, CurrentName, "running")
    /\ pc' = "exec"
    /\ UNCHANGED <<execution_order, idx, summary, ret, before,
                   exec_log, seen, past_runs, definitions, threads>>

\* A try statement that stores the outcome but not the status.
AfterExecute_StillRunning(task, out) ==
    IF out.raised
    THEN [task EXCEPT !.error = out.exc]
    ELSE [task EXCEPT !.result = IF out.none THEN EmptyMap ELSE out.value]

\* An except branch that does not store the error.
AfterExecute_NoError(task, out) ==
    IF out.raised
    THEN [task EXCEPT !.status = "failed"]
    ELSE [task EXCEPT !.status = "success",
                      !.result = IF out.none THEN EmptyMap ELSE out.value]

\* The node after the try statement of lines 135-143.
AfterExecute(task, out) ==
    IF out.raised
    THEN [task EXCEPT !.status = "failed", !.error = out.exc]
    ELSE [task EXCEPT !.status = "success",
                      !.result = IF out.none THEN EmptyMap ELSE out.value]

\* Lines 135-149: the call of execute_fn, its outcome stored on the node,
\* the summary entry.
Execute ==
    /\ pc = "exec"
    /\ LET i == IndexOf(tasks, CurrentName)
           out == Apply(tasks[i].execute_fn, context)
           task == AfterExecute(tasks[i], out)
       IN  /\ tasks' = [tasks EXCEPT ![i] = task]
           /\ summary' = [summary EXCEPT !.tasks = MapPut(@, CurrentName, TimedEntry(task))]
    /\ exec_log' = Append(exec_log, CurrentName)
    /\ seen' = MapPut(seen, CurrentName, context)
    /\ idx' = idx + 1
    /\ pc' = "loop"
    /\ UNCHANGED <<execution_order, context, initial_context, ret, before,
                   past_runs, definitions, threads>>

\* any() where the code says all().
OverallStatus_Any(ts) ==
    IF \E i \in DOMAIN ts : ts[i].status = "success" THEN "completed" ELSE "failed"

\* all_success and the overall status, lines 151-152.
OverallStatus(ts) ==
    IF \A i \in DOMAIN ts : ts[i].status = "success" THEN "completed" ELSE "failed"

\* A for loop that is never exhausted.
LoopDone_Never(order, i) == FALSE

\* The for loop of line 114 has gone past the last node of the order.
LoopDone(order, i) == i > Len(order)

\* Lines 151-154: the loop is over, the summary is returned.
Return ==
    /\ pc = "loop"
    /\ LoopDone(execution_order, idx)
    /\ summary' = [summary EXCEPT !.status = OverallStatus(tasks)]
    /\ ret' = [op |-> "run", kind |-> "summary", error |-> NoError]
    /\ pc' = "idle"
    /\ UNCHANGED <<tasks, execution_order, idx, context, initial_context, before,
                   exec_log, seen, definitions, threads>>

RunReturn == Return /\ UNCHANGED past_runs

\* What a caller observes of a run: the context it passed, the order in which
\* the logic was invoked, the statuses of the summary.
Observed(ic, log, sm) ==
    [initial_context |-> ic, exec_log |-> log,
     statuses |-> [n \in DOMAIN sm.tasks |-> sm.tasks[n].status],
     status |-> sm.status]

\* The same return, with what the caller observed kept for comparison with
\* the other runs of the graph.
RunReturnRecorded ==
    /\ Return
    /\ past_runs' = past_runs \cup {Observed(initial_context, exec_log, summary')}

Next ==
    \/ \E name \in Names, args \in DuplicateArgs :
          AddTaskDuplicate(name, args.fn, args.deps)
    \/ \E fn \in Fns, deps \in DepLists : CanAdd(deps) /\ AddTask(FreshName, fn, deps)
    \/ \E ic \in InitialContexts : RunRaises(ic)
    \/ \E ic \in InitialContexts : RunStart(ic)
    \/ Skip
    \/ Begin
    \/ Execute
    \/ RunReturn

Spec == Init /\ [][Next]_vars

\* The same program with the returns of its runs recorded.
NextRepeat ==
    \/ \E name \in Names, args \in DuplicateArgs :
          AddTaskDuplicate(name, args.fn, args.deps)
    \/ \E fn \in Fns, deps \in DepLists : CanAdd(deps) /\ AddTask(FreshName, fn, deps)
    \/ \E ic \in InitialContexts : RunRaises(ic)
    \/ \E ic \in InitialContexts : RunStart(ic)
    \/ Skip
    \/ Begin
    \/ Execute
    \/ RunReturnRecorded

SpecRepeat == Init /\ [][NextRepeat]_vars

\* The same program with its scheduling: run is one thread of control that
\* goes from one line to the next, and the logic of every task returns or
\* raises, so a step of the loop that can be taken is taken.
SpecLive ==
    /\ Init
    /\ [][Next]_vars
    /\ WF_vars(Skip)
    /\ WF_vars(Begin)
    /\ WF_vars(Execute)
    /\ WF_vars(RunReturn)

\* ---------------------------------------- build_patient_ingestion_pipeline

\* self.tasks of the DAG the factory returns: the five add_task calls.
PatientIngestionPipeline ==
    << TaskNode("extract", "extract", <<>>),
       TaskNode("validate", "validate", <<"extract">>),
       TaskNode("check_consent", "check_consent", <<"validate">>),
       TaskNode("transform", "transform", <<"check_consent">>),
       TaskNode("load", "load", <<"transform">>) >>

\* The state after build_patient_ingestion_pipeline().
InitPipeline ==
    /\ tasks = PatientIngestionPipeline
    /\ pc = "idle"
    /\ execution_order = <<>>
    /\ idx = 0
    /\ context = EmptyMap
    /\ initial_context = EmptyMap
    /\ summary = NoSummary
    /\ ret = [op |-> "init", kind |-> "ok", error |-> NoError]
    /\ before = <<>>
    /\ exec_log = <<>>
    /\ seen = EmptyMap
    /\ past_runs = {}
    /\ definitions = {}
    /\ threads = NoThreads

\* The pipeline, run on one batch after another (its graph is acyclic and
\* resolves, so its sort never raises).
NextPipeline ==
    \/ \E ic \in PipelineContexts : RunStart(ic)
    \/ Skip
    \/ Begin
    \/ Execute
    \/ RunReturn

SpecPipeline == InitPipeline /\ [][NextPipeline]_vars

\* ----------------------------------------------------------------- to_dict

\* self.name, as given to DAG(...).
DagName == "dag"

\* A serialization that also reports each node's status.
ToDict_WithStatus(ts) ==
    [name |-> DagName,
     tasks |-> [i \in DOMAIN ts |->
                  [name |-> ts[i].name, depends_on |-> ts[i].depends_on,
                   status |-> ts[i].status]]]

\* The value to_dict returns: the name of the graph and, for each node in
\* dict order, its name (the key) and {"depends_on": task.depends_on}.
ToDict(ts) ==
    [name |-> DagName,
     tasks |-> [i \in DOMAIN ts |->
                  [name |-> ts[i].name, depends_on |-> ts[i].depends_on]]]

\* self.tasks after to_dict: nothing is assigned.
TasksAfterToDict(ts) == ts

\* What is kept of a to_dict call: the value returned, and whether the graph
\* had not run yet (every node PENDING) when it was called.
Serialized(ts) ==
    [out |-> ToDict(ts), fresh |-> \A i \in DOMAIN ts : ts[i].status = "pending"]

\* to_dict, called between the other calls.
ToDictCall ==
    /\ pc = "idle"
    /\ tasks' = TasksAfterToDict(tasks)
    /\ ret' = [op |-> "to_dict", kind |-> "ok", error |-> NoError]
    /\ before' = tasks
    /\ definitions' = definitions \cup {Serialized(tasks)}
    /\ UNCHANGED threads
    /\ DropRunLocals
    /\ UNCHANGED <<pc, past_runs>>

\* The same program with to_dict called.
NextDict ==
    \/ \E name \in Names, args \in DuplicateArgs :
          AddTaskDuplicate(name, args.fn, args.deps)
    \/ \E fn \in Fns, deps \in DepLists : CanAdd(deps) /\ AddTask(FreshName, fn, deps)
    \/ \E ic \in InitialContexts : RunRaises(ic)
    \/ \E ic \in InitialContexts : RunStart(ic)
    \/ Skip
    \/ Begin
    \/ Execute
    \/ RunReturn
    \/ ToDictCall

SpecDict == Init /\ [][NextDict]_vars

\* -------------------------------------------------------- graph vocabulary

\* The direct dependencies of node n, as a set.
Deps(ts, n) == Range(TaskOf(ts, n).depends_on)

\* Every dependency name is a node.
Resolves(ts) == \A i \in DOMAIN ts : Range(ts[i].depends_on) \subseteq TaskNames(ts)

\* S and what the nodes of S depend on, k levels deep.
RECURSIVE Closure(_, _, _)
Closure(ts, S, k) ==
    IF k = 0 THEN S
    ELSE Closure(ts, S \cup UNION {Deps(ts, m) : m \in S \cap TaskNames(ts)}, k - 1)

\* The transitive ancestors of node n.
Ancestors(ts, n) == Closure(ts, Deps(ts, n), Len(ts))

\* The dependency relation has a cycle (a node that depends on itself included).
Cyclic(ts) == \E n \in TaskNames(ts) : n \in Ancestors(ts, n)

Pos(order, n) == CHOOSE i \in DOMAIN order : order[i] = n

\* order is a permutation of the node names with every node after its
\* direct dependencies.
ValidOrder(ts, order) ==
    /\ Len(order) = Len(ts)
    /\ Range(order) = TaskNames(ts)
    /\ \A n \in TaskNames(ts) : \A d \in Deps(ts, n) : Pos(order, d) < Pos(order, n)

\* The last call was a run, which raised / is under way or has returned.
RunRaised == ret.op = "run" /\ ret.kind = "raise"

RunStarted == ret.op = "run" /\ ret.kind # "raise"

Returned == ret.op = "run" /\ ret.kind = "summary"

\* The nodes the for loop of the current run has gone past.
Visited == {execution_order[i] : i \in 1..(idx - 1)}

StatusOf(n) == TaskOf(tasks, n).status

\* ------------------------------------------------------------------ claims

\* C1 (as claimed): whenever run is called on a graph whose dependency relation
\* is acyclic and whose dependency names all resolve, _topological_sort does
\* not raise and the order it returns is a permutation of the node names with
\* every node after its direct dependencies.
C1_AcyclicGraphIsOrdered ==
    (ret.op = "run" /\ Resolves(tasks) /\ ~Cyclic(tasks))
        => (~RunRaised /\ ValidOrder(tasks, execution_order))

\* C2 (as claimed): run on a graph whose dependency relation has a cycle raises
\* "Cycle detected", with no logic invoked and no node changed.
C2_CycleAlwaysCycleError ==
    (ret.op = "run" /\ Cyclic(tasks))
        => (RunRaised /\ ret.error = CycleError /\ exec_log = <<>> /\ tasks = before)

\* C2 (amended): run on a graph whose dependency names all resolve and whose
\* dependency relation has a cycle raises "Cycle detected"; no logic has been
\* invoked and no node's status, result or error was changed by the call, so
\* every node that was PENDING is still PENDING.
C2_ResolvedCycleRaises ==
    (ret.op = "run" /\ Resolves(tasks) /\ Cyclic(tasks))
        => /\ RunRaised
           /\ ret.error = CycleError
           /\ exec_log = <<>>
           /\ tasks = before

\* C2 witness: a run has raised on a graph with a two-node cycle and a third
\* node outside it.
C2_Witness ==
    /\ RunRaised /\ Resolves(tasks) /\ Cyclic(tasks)
    /\ \E n \in TaskNames(tasks) : n \notin Ancestors(tasks, n)
    /\ \E n \in TaskNames(tasks) : n \in Ancestors(tasks, n) /\ n \notin Deps(tasks, n)

\* C3: run on a graph with a dependency name that is no node raises the
\* unknown-dependency error; no logic has been invoked, and every node's
\* status, result and error are as they were before the call.
C3_UnknownDependencyRaises ==
    (ret.op = "run" /\ ~Resolves(tasks))
        => /\ RunRaised
           /\ ret.error.kind = "unknown"
           /\ ret.error.dep \notin TaskNames(tasks)
           /\ ret.error.dep \in Deps(tasks, ret.error.task)
           /\ exec_log = <<>>
           /\ tasks = before

\* C3 witness: the run raised on a graph of which one node had failed in an
\* earlier run (its status and error are kept) and another was added since.
C3_Witness ==
    /\ RunRaised /\ ~Resolves(tasks)
    /\ \E i \in DOMAIN tasks : tasks[i].status = "failed" /\ tasks[i].error # None
    /\ \E i \in DOMAIN tasks : tasks[i].status = "pending"

\* C4: a node visited while one of its direct dependencies is FAILED becomes
\* SKIPPED, its logic is not invoked, and the summary of the run says "failed".
C4_DirectDependentsSkipped ==
    RunStarted =>
        \A n \in Visited :
            (\E d \in Deps(tasks, n) : StatusOf(d) = "failed")
                => /\ StatusOf(n) = "skipped"
                   /\ n \notin Range(exec_log)
                   /\ n \in DOMAIN summary.tasks
                   /\ summary.tasks[n] = SkippedEntry
                   /\ Returned => summary.status = "failed"

\* C4 witness: a run has returned in which a node with one failed and one
\* successful direct dependency was skipped.
C4_Witness ==
    /\ Returned
    /\ \E n \in TaskNames(tasks) :
          /\ StatusOf(n) = "skipped"
          /\ \E d \in Deps(tasks, n) : StatusOf(d) = "failed"
          /\ \E d \in Deps(tasks, n) : StatusOf(d) = "success"

\* C5 (as claimed): a node visited with a FAILED node among its transitive
\* ancestors becomes SKIPPED and its logic is not invoked.
C5_TransitiveDependentsSkipped ==
    RunStarted =>
        \A n \in Visited :
            (\E d \in Ancestors(tasks, n) : StatusOf(d) = "failed")
                => (StatusOf(n) = "skipped" /\ n \notin Range(exec_log))

\* C6: the summary run returns says "completed" exactly when every node is
\* SUCCESS, and "failed" when a node is FAILED or SKIPPED.
C6_CompletedIffAllSuccess ==
    Returned =>
        /\ summary.status \in {"completed", "failed"}
        /\ summary.status = "completed" <=> \A n \in TaskNames(tasks) : StatusOf(n) = "success"
        /\ (\E n \in TaskNames(tasks) : StatusOf(n) \in {"failed", "skipped"})
               => summary.status = "failed"

\* C6 witness: a run has returned "failed" with a successful, a failed and a
\* skipped node.
C6_Witness ==
    /\ Returned /\ summary.status = "failed"
    /\ \E n \in TaskNames(tasks) : StatusOf(n) = "success"
    /\ \E n \in TaskNames(tasks) : StatusOf(n) = "failed"
    /\ \E n \in TaskNames(tasks) : StatusOf(n) = "skipped"

\* The logic of node n, called with the context it was called with in this
\* run, raises.
Faulted(n) == Apply(TaskOf(tasks, n).execute_fn, seen[n]).raised

\* C7: a run that has started never ends by raising: whatever each node's
\* logic does, the run can always take its next step until it has returned the
\* summary, and a node whose logic raised is FAILED with an error string, on
\* the node and in its summary entry.
C7_FaultContained ==
    /\ pc # "idle" => (RunStarted /\ ENABLED (Skip \/ Begin \/ Execute \/ Return))
    /\ RunStarted =>
          \A n \in DOMAIN seen :
              Faulted(n) =>
                  /\ StatusOf(n) = "failed"
                  /\ TaskOf(tasks, n).error # None
                  /\ summary.tasks[n].status = "failed"
                  /\ summary.tasks[n].error # None

\* C7 witness: a run has returned its summary after the logic of its first
\* node raised and the logic of a later node was still invoked.
C7_Witness ==
    /\ Returned
    /\ Len(exec_log) >= 2
    /\ Faulted(exec_log[1])
    /\ summary.tasks[exec_log[1]].error = "'k'"

\* C8: the context a node's logic is invoked with holds every key of every
\* direct dependency's result, with the value of the last dependency of
\* depends_on that has the key.
C8_ContextHoldsDependencyResults ==
    RunStarted =>
        \A n \in DOMAIN seen :
            LET deps == TaskOf(tasks, n).depends_on
            IN  \A j \in DOMAIN deps :
                    \A key \in DOMAIN TaskOf(tasks, deps[j]).result :
                        /\ key \in DOMAIN seen[n]
                        /\ (\A l \in DOMAIN deps :
                               l > j => key \notin DOMAIN TaskOf(tasks, deps[l]).result)
                              => seen[n][key] = TaskOf(tasks, deps[j]).result[key]

\* C8 witness: a node was invoked whose two direct dependencies both set "k",
\* to different values, the later one executed first.
C8_Witness ==
    /\ RunStarted
    /\ \E n \in DOMAIN seen :
          LET deps == TaskOf(tasks, n).depends_on
          IN  /\ Len(deps) = 2
              /\ "k" \in DOMAIN TaskOf(tasks, deps[1]).result
              /\ "k" \in DOMAIN TaskOf(tasks, deps[2]).result
              /\ TaskOf(tasks, deps[1]).result["k"] # TaskOf(tasks, deps[2]).result["k"]
              /\ Pos(exec_log, deps[2]) < Pos(exec_log, deps[1])

\* C9: when a run has returned with every node SUCCESS, the logic was invoked
\* in the computed order, every node after its dependencies, and the context
\* each node was invoked with holds the result keys of all its transitive
\* ancestors.
C9_AllSuccessOrderAndContext ==
    (Returned /\ \A n \in TaskNames(tasks) : StatusOf(n) = "success") =>
        /\ exec_log = execution_order
        /\ ValidOrder(tasks, exec_log)
        /\ \A n \in TaskNames(tasks) :
              \A d \in Ancestors(tasks, n) :
                  DOMAIN TaskOf(tasks, d).result \subseteq DOMAIN seen[n]

\* C9 witness: the chain a -> b -> c has run with every node SUCCESS, and c
\* was invoked with a key that only a's result holds (b's result is empty and
\* the initial context was empty).
C9_Witness ==
    /\ Returned /\ Len(tasks) = 3
    /\ \A n \in TaskNames(tasks) : StatusOf(n) = "success"
    /\ exec_log = <<"a", "b", "c">>
    /\ Deps(tasks, "c") = {"b"} /\ Deps(tasks, "b") = {"a"}
    /\ initial_context = EmptyMap
    /\ TaskOf(tasks, "b").result = EmptyMap
    /\ "k" \in DOMAIN TaskOf(tasks, "a").result
    /\ "k" \in DOMAIN seen["c"]

\* C10 (as claimed): the runs of one graph with the same initial context and
\* deterministic logic invoke the logic in the same order and return the same
\* per-node statuses and the same overall status.
C10_RepeatedRunsAgree ==
    \A r1, r2 \in past_runs : r1.initial_context = r2.initial_context => r1 = r2

\* The moves of a node's status the lifecycle allows.
AllowedMoves ==
    {<<"pending", "running">>, <<"running", "success">>, <<"running", "failed">>,
     <<"pending", "skipped">>}

\* C11 (as claimed): in every step of a graph, under any sequence of add_task
\* and run calls, the status of every node stays as it is or moves along
\* PENDING -> RUNNING -> (SUCCESS | FAILED) or PENDING -> SKIPPED.
C11_StatusMovesForward ==
    [][\A i \in DOMAIN tasks :
          \/ tasks'[i].status = tasks[i].status
          \/ <<tasks[i].status, tasks'[i].status>> \in AllowedMoves]_vars

\* C12: one run visits every node exactly once: the computed order holds every
\* node once, no node's logic is invoked twice, the returned summary has one
\* entry per node, and when no logic raised every node's logic was invoked.
C12_EveryNodeVisitedOnce ==
    RunStarted =>
        /\ Len(execution_order) = Len(tasks)
        /\ Range(execution_order) = TaskNames(tasks)
        /\ \A i, j \in DOMAIN exec_log : exec_log[i] = exec_log[j] => i = j
        /\ DOMAIN seen = Range(exec_log)
        /\ DOMAIN summary.tasks = Visited
        /\ Returned =>
              /\ DOMAIN summary.tasks = TaskNames(tasks)
              /\ (\A n \in DOMAIN seen : ~Faulted(n))
                     => (Range(exec_log) = TaskNames(tasks) /\ Len(exec_log) = Len(tasks))

\* C12 witness: a run of three nodes has returned with no logic raising and
\* every logic invoked, on a graph one node of which had failed in an earlier
\* run (its error is still there).
C12_Witness ==
    /\ Returned /\ Len(tasks) = 3 /\ Len(exec_log) = 3
    /\ \A n \in DOMAIN seen : ~Faulted(n)
    /\ \E i \in DOMAIN tasks : tasks[i].error # None /\ tasks[i].depends_on = <<>>
    /\ \E i \in DOMAIN tasks : tasks[i].depends_on # <<>>

\* The last call was an add_task that raised.
AddRaised == ret.op = "add_task" /\ ret.kind = "raise"

\* C13: add_task with a name that is already registered raises the
\* duplicate-name error and changes nothing: the graph has the same nodes, in
\* the same order, each with the execute_fn, depends_on, status, result and
\* error it had before the call; so no two nodes ever share a name.
C13_DuplicateNameRejected ==
    /\ AddRaised => (ret.error = DuplicateError /\ tasks = before)
    /\ \A i, j \in DOMAIN tasks : tasks[i].name = tasks[j].name => i = j

\* C13 witness: the call raised on a graph that has run, with a SUCCESS node
\* holding a result and a FAILED node holding an error, and no node declared
\* as either of the rejected calls declared it.
C13_Witness ==
    /\ AddRaised
    /\ \E i \in DOMAIN tasks : tasks[i].status = "success" /\ tasks[i].result # EmptyMap
    /\ \E i \in DOMAIN tasks : tasks[i].status = "failed" /\ tasks[i].error # None
    /\ \A i \in DOMAIN tasks, args \in DuplicateArgs :
          tasks[i].execute_fn # args.fn \/ tasks[i].depends_on # args.deps

\* C14 (as claimed): in every reachable state a node's error is set only while
\* the node is FAILED, its result is non-empty only while it is SUCCESS, and
\* every summary entry with status "success" has error None.
C14_ErrorOnlyFailedResultOnlySuccess ==
    /\ \A i \in DOMAIN tasks :
          /\ tasks[i].error # None => tasks[i].status = "failed"
          /\ tasks[i].result # EmptyMap => tasks[i].status = "success"
    /\ \A n \in DOMAIN summary.tasks :
          summary.tasks[n].status = "success" => summary.tasks[n].error = None

\* C15: to_dict returns the name of the graph and, for each node, its declared
\* depends_on and nothing else; the call changes no node; and all the calls
\* made on a graph since its last node was added, before any run and after
\* runs of whatever outcome, returned the same value.
C15_ToDictIsStructureOnly ==
    /\ ret.op = "to_dict" => tasks = before
    /\ \A d \in definitions :
          /\ d.out.name = DagName
          /\ Len(d.out.tasks) = Len(tasks)
          /\ \A i \in DOMAIN tasks :
                /\ DOMAIN d.out.tasks[i] = {"name", "depends_on"}
                /\ d.out.tasks[i].name = tasks[i].name
                /\ d.out.tasks[i].depends_on = tasks[i].depends_on
    /\ \A d1, d2 \in definitions : d1.out = d2.out

\* C15 witness: to_dict was called on the graph before it ran and again after
\* a run that left a SUCCESS, a FAILED and a SKIPPED node.
C15_Witness ==
    /\ ret.op = "to_dict"
    /\ \E d1, d2 \in definitions : d1.fresh /\ ~d2.fresh
    /\ \E i \in DOMAIN tasks : tasks[i].status = "success" /\ tasks[i].result # EmptyMap
    /\ \E i \in DOMAIN tasks : tasks[i].status = "failed"
    /\ \E i \in DOMAIN tasks : tasks[i].status = "skipped"

\* C16 (as claimed): add_task accepts dependency names that are no node (yet),
\* and whatever the order in which the nodes were added, a run schedules the
\* graph (its sort does not raise) exactly when every dependency name
\* resolves and the dependency relation is acyclic.
C16_SchedulesIffResolvedAndAcyclic ==
    ret.op = "run" => (~RunRaised <=> (Resolves(tasks) /\ ~Cyclic(tasks)))

\* The names of the nodes, in insertion order.
NameList(ts) == [i \in DOMAIN ts |-> ts[i].name]

\* FIFO Kahn, on the dependency relation: the head of the queue is emitted,
\* and the nodes whose last missing dependency it was are appended in
\* insertion order.
RECURSIVE FifoKahn(_, _, _)
FifoKahn(ts, queue, emitted) ==
    IF queue = <<>> THEN emitted
    ELSE LET n == Head(queue)
             done == Range(emitted) \cup {n}
             ready == SelectSeq(NameList(ts),
                                LAMBDA m : /\ n \in Deps(ts, m)
                                           /\ Deps(ts, m) \subseteq done
                                           /\ m \notin done
                                           /\ m \notin Range(queue))
         IN  FifoKahn(ts, Tail(queue) \o ready, Append(emitted, n))

\* The order of FIFO Kahn seeded with the nodes without dependencies, in
\* insertion order.
FifoOrder(ts) ==
    FifoKahn(ts, SelectSeq(NameList(ts), LAMBDA m : Deps(ts, m) = {}), <<>>)

\* C19: the order a run iterates is the order of FIFO Kahn's algorithm: the
\* queue seeded with the zero-in-degree nodes in insertion order, its head
\* emitted next, the nodes an emission makes ready appended to its tail in
\* insertion order.
C19_OrderIsFifoKahn ==
    RunStarted => execution_order = FifoOrder(tasks)

\* C19 witness: a run iterates a, c, b on the graph a, b = [a], c: c was
\* queued at the seed, before b became ready, and is emitted before it.
C19_Witness ==
    /\ RunStarted
    /\ execution_order = <<"a", "c", "b">>
    /\ Deps(tasks, "a") = {} /\ Deps(tasks, "b") = {"a"} /\ Deps(tasks, "c") = {}

\* The first node, in insertion order, with a dependency that is no node, and
\* the first such dependency of its list.
FirstDepending(ts) ==
    ts[CHOOSE i \in DOMAIN ts :
           /\ ~(Range(ts[i].depends_on) \subseteq TaskNames(ts))
           /\ \A l \in 1..(i - 1) : Range(ts[l].depends_on) \subseteq TaskNames(ts)]

FirstMissing(ts, task) ==
    task.depends_on[CHOOSE j \in DOMAIN task.depends_on :
                        /\ task.depends_on[j] \notin TaskNames(ts)
                        /\ \A l \in 1..(j - 1) : task.depends_on[l] \in TaskNames(ts)]

\* C20: run on a graph that has both a dependency name that is no node and a
\* cycle raises the unknown-dependency error, never the cycle error; the
\* error names the first depending node in insertion order and the first
\* missing name of its list.
C20_UnknownBeforeCycle ==
    (ret.op = "run" /\ ~Resolves(tasks) /\ Cyclic(tasks))
        => /\ RunRaised
           /\ ret.error # CycleError
           /\ ret.error = UnknownError(FirstDepending(tasks).name,
                                       FirstMissing(tasks, FirstDepending(tasks)))

\* C20 witness: a run raised on the two-node cycle a <-> b one node of which
\* also names a third node that was never added.
C20_Witness ==
    /\ RunRaised /\ ~Resolves(tasks) /\ Cyclic(tasks)
    /\ Len(tasks) = 2
    /\ \A n \in TaskNames(tasks) : n \in Ancestors(tasks, n) /\ n \notin Deps(tasks, n)
    /\ ret.error.kind = "unknown"

\* ------------------------------------------- claims on patient ingestion

\* record passes the schema; record has consent.data_sharing exactly true.
SchemaValid(record) == ValidateAgainstSchema(record) = {}

Consents(record) ==
    /\ "consent" \in DOMAIN record
    /\ record["consent"].type = "object"
    /\ "data_sharing" \in DOMAIN record["consent"].value
    /\ record["consent"].value["data_sharing"] = Bool(TRUE)

Passes(record) == SchemaValid(record) /\ Consents(record)

Blocked(record) == SchemaValid(record) /\ ~Consents(record)

\* The value stored under key in the result of step n ([] when there is none).
ResultOf(n, key) == Get(TaskOf(tasks, n).result, key, <<>>)

\* The batch the current run was given, and: the run has returned and was
\* given a batch (a list, or nothing, which extract reads as the empty list).
RunBatch == Get(initial_context, "raw_records", <<>>)

BatchRun == Returned /\ IsSized(RunBatch)

\* Only schema-valid records with data_sharing exactly true reach transform
\* and load, in every reachable state of the pipeline.
OnlyPassingRecordsLoaded ==
    /\ \A t \in Range(ResultOf("transform", "transformed_records"))
                 \cup Range(ResultOf("load", "loaded_records")) :
          Passes(t["fhir_resource"])
    /\ \A n \in {"transform", "load"} \cap DOMAIN seen :
          /\ \A r \in Range(Get(seen[n], "consented_records", <<>>)) : Passes(r)
          /\ \A t \in Range(Get(seen[n], "transformed_records", <<>>)) :
                Passes(t["fhir_resource"])

\* C17 (as claimed): every loaded record passed validation and has
\* data_sharing exactly true, and every record of the batch with data_sharing
\* false or missing is kept from transform and load and counted in
\* consent_blocked.
C17_EveryNonConsentingRecordCounted ==
    /\ OnlyPassingRecordsLoaded
    /\ BatchRun =>
          \A i \in DOMAIN RunBatch :
              ~Consents(RunBatch[i]) =>
                  \E j \in DOMAIN ResultOf("check_consent", "consent_blocked") :
                      ResultOf("check_consent", "consent_blocked")[j]["mrn"]
                          = RunBatch[i]["mrn"]

\* C17 (amended): every record that reaches transform or load passed
\* validation and has data_sharing exactly true; after a run on a batch the
\* loaded records are the batch's valid records with data_sharing true, in
\* order, and consent_blocked has one entry, with its mrn, for each valid
\* record of the batch whose data_sharing is false or missing (invalid records
\* are stopped by validate and are not counted there).
C17_ConsentGate ==
    /\ OnlyPassingRecordsLoaded
    /\ BatchRun =>
          LET passing == SelectSeq(RunBatch, Passes)
              blocked == SelectSeq(RunBatch, Blocked)
              loaded  == ResultOf("load", "loaded_records")
              counted == ResultOf("check_consent", "consent_blocked")
          IN  /\ Len(loaded) = Len(passing)
              /\ \A i \in DOMAIN loaded : loaded[i]["fhir_resource"] = passing[i]
              /\ Len(counted) = Len(blocked)
              /\ \A i \in DOMAIN counted :
                    counted[i] = [mrn |-> blocked[i]["mrn"],
                                  reason |-> "no data_sharing consent"]

\* C17 witness: a run has returned on a batch of a consenting valid record,
\* which was loaded, and a valid record without consent, which was counted
\* in consent_blocked.
C17_Witness ==
    /\ BatchRun
    /\ Len(RunBatch) = 2
    /\ Passes(RunBatch[2])
    /\ Blocked(RunBatch[1]) /\ "consent" \notin DOMAIN RunBatch[1]
    /\ Len(ResultOf("load", "loaded_records")) = 1
    /\ Len(ResultOf("check_consent", "consent_blocked")) = 1

\* The count step n reports under key.
CountOf(n, key) == TaskOf(tasks, n).result[key]

\* C18: a run of the pipeline on a batch of records returns "completed" with
\* every step SUCCESS, whatever the records: valid_count is the number of
\* schema-valid records of the batch, consented_count the number of valid
\* records with data_sharing true, and
\* load_count = transform_count = consented_count <= valid_count <= extract_count.
C18_FilteredNotFailed ==
    BatchRun =>
        /\ summary.status = "completed"
        /\ \A i \in DOMAIN tasks : tasks[i].status = "success"
        /\ CountOf("extract", "extract_count") = Len(RunBatch)
        /\ CountOf("validate", "valid_count")
              = Cardinality({i \in DOMAIN RunBatch : SchemaValid(RunBatch[i])})
        /\ CountOf("check_consent", "consented_count")
              = Cardinality({i \in DOMAIN RunBatch : Passes(RunBatch[i])})
        /\ CountOf("transform", "transform_count") = CountOf("check_consent", "consented_count")
        /\ CountOf("load", "load_count") = CountOf("transform", "transform_count")
        /\ CountOf("check_consent", "consented_count") <= CountOf("validate", "valid_count")
        /\ CountOf("validate", "valid_count") <= CountOf("extract", "extract_count")

\* C18 witness: a run has returned "completed" on a batch of an invalid
\* record and a valid record without consent (counts 2, 1, 0, 0, 0), on a
\* pipeline whose extract step had failed in an earlier run.
C18_Witness ==
    /\ BatchRun
    /\ summary.status = "completed"
    /\ Len(RunBatch) = 2
    /\ ~SchemaValid(RunBatch[1])
    /\ Blocked(RunBatch[2])
    /\ CountOf("validate", "valid_count") = 1
    /\ CountOf("load", "load_count") = 0
    /\ TaskOf(tasks, "extract").error # None

\* ------------------------------------------------- claims on the run loop

\* The statuses a visited node ends in.
FinalStatuses == {"success", "failed", "skipped"}

\* C21: at most one node is RUNNING at any time, and a node is RUNNING only
\* while run is at the call of its logic, when every node earlier in the
\* computed order, so each of its direct dependencies, is SUCCESS, FAILED or
\* SKIPPED.
C21_OneNodeRunsAtATime ==
    /\ Cardinality({i \in DOMAIN tasks : tasks[i].status = "running"}) <= 1
    /\ \A i \in DOMAIN tasks :
          tasks[i].status = "running" =>
              /\ pc = "exec"
              /\ tasks[i].name = CurrentName
              /\ \A j \in 1..(idx - 1) : StatusOf(execution_order[j]) \in FinalStatuses
              /\ \A d \in Deps(tasks, tasks[i].name) :
                    d \in Visited /\ StatusOf(d) \in FinalStatuses

\* C21 witness: the third node of the order is RUNNING after the first was
\* FAILED and the second SKIPPED in this run.
C21_Witness ==
    /\ pc = "exec" /\ idx = 3
    /\ StatusOf(CurrentName) = "running"
    /\ StatusOf(execution_order[1]) = "failed"
    /\ StatusOf(execution_order[2]) = "skipped"
    /\ Deps(tasks, CurrentName) # {}

\* C22: when run has returned its summary every node is SUCCESS, FAILED or
\* SKIPPED, none PENDING or RUNNING, and the status of each node's summary
\* entry is the node's status.
C22_ReturnLeavesFinalStatuses ==
    Returned =>
        \A n \in TaskNames(tasks) :
            /\ StatusOf(n) \in FinalStatuses
            /\ n \in DOMAIN summary.tasks
            /\ summary.tasks[n].status = StatusOf(n)

\* C22 witness: a run has returned with a SUCCESS, a FAILED and a SKIPPED
\* entry, the SKIPPED node still holding the result of an earlier run in
\* which it was SUCCESS.
C22_Witness ==
    /\ Returned /\ Len(tasks) = 3
    /\ \E n \in TaskNames(tasks) : summary.tasks[n].status = "success"
    /\ \E n \in TaskNames(tasks) : summary.tasks[n].status = "failed"
    /\ \E n \in TaskNames(tasks) :
          summary.tasks[n] = SkippedEntry /\ TaskOf(tasks, n).result # EmptyMap


\* C30: DAG.run never modifies the caller's initial_context mapping: from the
\* entry of run to its return no step changes the keys or the values of the
\* mapping that was passed in, whatever the tasks return or raise; the
\* results are merged into the run's own copy.
C30_InitialContextIsNotModified ==
    [][pc # "idle" => initial_context' = initial_context]_vars

\* A run has returned whose context has taken up a dependency's result
\* that the caller's mapping does not hold, next to a failed node.
C30_Witness ==
    /\ Returned
    /\ initial_context = EmptyMap
    /\ context # EmptyMap
    /\ \E n \in TaskNames(tasks) : StatusOf(n) = "failed"

\* --------------------------------------------------- claims on the order

Largest(S) == CHOOSE x \in S : \A y \in S : y <= x

\* The length of the longest dependency chain that ends at node n of an
\* acyclic graph: 0 for a node without dependencies.
RECURSIVE Depth(_, _)
Depth(ts, n) ==
    IF Deps(ts, n) = {} THEN 0
    ELSE 1 + Largest({Depth(ts, d) : d \in Deps(ts, n)})

DepthSorted(ts, order) ==
    \A i, j \in DOMAIN order : i < j => Depth(ts, order[i]) <= Depth(ts, order[j])

\* C29: the order _topological_sort emits is sorted by dependency depth:
\* whenever the sort of the graph returns an order, no node stands in it
\* before a node of strictly smaller depth, where the depth of a node is the
\* length of the longest dependency chain ending at it.
C29_OrderIsSortedByDepth ==
    LET s == TopologicalSort(tasks)
    IN  ~s.raised => DepthSorted(tasks, s.order)

\* A run is under way on three nodes whose order differs from the order of
\* insertion: the node added second waits for the node added third.
C29_Witness ==
    /\ RunStarted
    /\ Len(tasks) = 3
    /\ execution_order = TopologicalSort(tasks).order
    /\ execution_order # NameList(tasks)
    /\ Depth(tasks, execution_order[1]) = 0
    /\ Depth(tasks, execution_order[2]) = 0
    /\ Depth(tasks, execution_order[3]) = 1

\* ------------------------------------------------ claims on partial failure

\* How often the logic of node n was invoked in this run.
Invocations(n) == Cardinality({i \in DOMAIN exec_log : exec_log[i] = n})

\* No transitive ancestor of node n is FAILED or SKIPPED.
CleanAncestry(n) ==
    \A m \in Ancestors(tasks, n) : StatusOf(m) \notin {"failed", "skipped"}

\* C28: partial failure is confined to the descendants of the failed node: in
\* every run, a node the loop has gone past that has no FAILED or SKIPPED node
\* among its transitive ancestors is not SKIPPED, and its logic was invoked
\* exactly once, also when other nodes failed earlier in the order.
C28_FailureConfinedToDescendants ==
    RunStarted =>
        \A n \in Visited :
            CleanAncestry(n) => StatusOf(n) # "skipped" /\ Invocations(n) = 1

\* A run has returned in which a node failed, its dependent was skipped, and
\* a node of another branch that came later in the order succeeded.
C28_Witness ==
    /\ Returned
    /\ \E f, d, n \in TaskNames(tasks) :
          /\ StatusOf(f) = "failed"
          /\ f \in Deps(tasks, d) /\ StatusOf(d) = "skipped"
          /\ Ancestors(tasks, n) = {}
          /\ Pos(execution_order, f) < Pos(execution_order, n)
          /\ StatusOf(n) = "success" /\ Invocations(n) = 1

\* -------------------------------------------- claims on repeated dependencies

\* A depends_on list without its repeated entries: each name once, at the
\* place of its first entry.
RECURSIVE Distinct(_)
Distinct(deps) ==
    IF deps = <<>> THEN <<>>
    ELSE LET front == Distinct(SubSeq(deps, 1, Len(deps) - 1))
             last == deps[Len(deps)]
         IN  IF last \in Range(front) THEN front ELSE Append(front, last)

\* The same graph with every depends_on list freed from repeated entries.
WithoutRepeats(ts) == [i \in DOMAIN ts |-> [ts[i] EXCEPT !.depends_on = Distinct(@)]]

\* C25 (as claimed): repeating a dependency name inside one depends_on list
\* does not change the scheduling outcome: the sort of the graph ends as the
\* sort of the same graph without the repeated entries ends, and a graph
\* whose names resolve and whose dependency relation is acyclic is never
\* reported as "Cycle detected".
C25_RepeatedDependencyIsHarmless ==
    LET s == TopologicalSort(tasks)
        t == TopologicalSort(WithoutRepeats(tasks))
    IN  /\ s.raised = t.raised
        /\ s.order = t.order
        /\ s.error = t.error
        /\ (Resolves(tasks) /\ ~Cyclic(tasks)) => s.error # CycleError

\* ------------------------------------------------- claims on repeated runs

\* C27 (as claimed): a run reports only its own outcomes, also when the graph
\* ran before: at its return, every node whose logic it invoked and that did
\* not raise has the summary entry "success" with error None, and every node
\* whose logic raised carries no result.
C27_RunReportsOnlyItsOwnOutcomes ==
    Returned =>
        \A n \in Range(exec_log) :
            IF Faulted(n)
            THEN /\ summary.tasks[n].status = "failed"
                 /\ TaskOf(tasks, n).result = EmptyMap
            ELSE /\ summary.tasks[n].status = "success"
                 /\ summary.tasks[n].error = None

\* ------------------------------------------------ two independent branches

\* The dependency lists of the two later nodes of a four-node graph.
BranchDeps == {<<"a">>, <<"b">>, <<"a", "b">>}

\* self.tasks after four add_task calls: a and b without dependencies, then
\* c and d, each depending on a, on b or on both.
BranchGraph(fa, fb, fc, fd, dc, dd) ==
    << TaskNode("a", fa, <<>>), TaskNode("b", fb, <<>>),
       TaskNode("c", fc, dc), TaskNode("d", fd, dd) >>

InitBranches ==
    /\ \E fa \in Fns, fb \in Fns, fc \in Fns, fd \in Fns :
       \E dc \in BranchDeps, dd \in BranchDeps :
          tasks = BranchGraph(fa, fb, fc, fd, dc, dd)
    /\ pc = "idle"
    /\ execution_order = <<>>
    /\ idx = 0
    /\ context = EmptyMap
    /\ initial_context = EmptyMap
    /\ summary = NoSummary
    /\ ret = [op |-> "add_task", kind |-> "ok", error |-> NoError]
    /\ before = <<>>
    /\ exec_log = <<>>
    /\ seen = EmptyMap
    /\ past_runs = {}
    /\ definitions = {}
    /\ threads = NoThreads

\* The runs of such a graph.
NextBranches ==
    \/ \E ic \in InitialContexts : RunStart(ic)
    \/ Skip
    \/ Begin
    \/ Execute
    \/ RunReturn

SpecBranches == InitBranches /\ [][NextBranches]_vars

\* The keys node n may see if context follows the dependency edges: those of
\* the caller's mapping and those of the results of its transitive ancestors.
UpstreamKeys(n) ==
    DOMAIN initial_context
        \cup UNION {DOMAIN TaskOf(tasks, m).result : m \in Ancestors(tasks, n)}

\* C26 (as claimed): context is propagated along dependency edges only: the
\* context a node's logic is called with holds no key that is neither a key
\* of the initial context nor a key of the result of one of the node's
\* transitive ancestors, so nodes on independent branches never see each
\* other's results.
C26_ContextFollowsDependencyEdges ==
    \A n \in DOMAIN seen : DOMAIN seen[n] \subseteq UpstreamKeys(n)

\* ---------------------------------------------------- claims on termination

\* What the while loop of _topological_sort emits for the graph, whether or
\* not the test of line 99 then raises.
Emitted(ts) == KahnLoop(ts, SeedQueue(ts, InDegree(ts), 1), <<>>, InDegree(ts))

\* C23: scheduling and running terminate: on every graph whose names resolve,
\* cyclic or not, the queue loop of _topological_sort ends having emitted
\* nodes of the graph, each at most once, and a run that has passed the sort
\* eventually returns its summary (a run that has not passed it has raised
\* the scheduling error).
C23_SortAndRunTerminate ==
    /\ [](Resolves(tasks) =>
            /\ Range(Emitted(tasks)) \subseteq TaskNames(tasks)
            /\ \A i, j \in DOMAIN Emitted(tasks) :
                  Emitted(tasks)[i] = Emitted(tasks)[j] => i = j
            /\ TopologicalSort(tasks).raised = (Len(Emitted(tasks)) # Len(tasks)))
    /\ (pc # "idle") ~> Returned

\* A run has raised "Cycle detected" on a graph with a cycle of which the
\* queue loop had emitted a node before it ran dry.
C23_Witness ==
    /\ RunRaised
    /\ ret.error = CycleError
    /\ Cyclic(tasks)
    /\ Len(tasks) = 3
    /\ Len(Emitted(tasks)) >= 1

\* ------------------------------------------------------- two threads at once

\* run takes no lock: two threads that call it interleave between any two
\* accesses to a node, so each read and each store of task.status,
\* task.result and task.error by a thread is a step of its own here, with the
\* work on the thread's locals that follows it.

Callers == {1, 2}

\* Whether a thread runs the DAG object of `tasks` (the same TaskNode
\* objects as the other thread) or a DAG it constructed itself, whose
\* __init__ gave it a dict of its own and whose add_task calls made new nodes.
Shares_Always(t) == TRUE

Shares(t) == t.shared

\* A thread that has not called run: the graph it holds when that is its
\* own, and the locals of run.
Thread(shared, ts) ==
    [shared |-> shared, tasks |-> ts, pc |-> "idle", execution_order |-> <<>>,
     idx |-> 0, j |-> 0, context |-> EmptyMap, initial_context |-> EmptyMap,
     summary |-> NoSummary, returned |-> FALSE, seen |-> EmptyMap,
     exc |-> None, status |-> None]

\* self.tasks as thread c reads it.
TasksOf(c) == IF Shares(threads[c]) THEN tasks ELSE threads[c].tasks

\* Thread c stores ts as the nodes of its graph and goes on with the locals t.
Stores(c, ts, t) ==
    /\ tasks' = IF Shares(threads[c]) THEN ts ELSE tasks
    /\ threads' = [threads EXCEPT ![c] = [t EXCEPT !.tasks = IF Shares(threads[c])
                                                             THEN @ ELSE ts]]

\* Thread c goes on with the locals t and stores nothing on a node.
Keeps(c, t) == Stores(c, TasksOf(c), t)

\* The caller's own locals and what is recorded of its calls.
callerVars ==
    <<pc, execution_order, idx, context, initial_context, summary, ret, before,
      exec_log, seen, past_runs, definitions>>

\* task_name and task of the pass thread c is in, and its depends_on.
NameOf(c) == threads[c].execution_order[threads[c].idx]

NodeOf(c) == TaskOf(TasksOf(c), NameOf(c))

InPass(c) == threads[c].idx <= Len(threads[c].execution_order)

\* The next pass of the for loop.
NextPass(t) == [t EXCEPT !.idx = @ + 1, !.j = 1, !.pc = "loop"]

\* Lines 108-112.
ThreadStart(c, ic) ==
    /\ threads[c].pc = "idle"
    /\ LET s == TopologicalSort(TasksOf(c))
       IN  /\ ~s.raised
           /\ Keeps(c, [threads[c] EXCEPT !.pc = "loop", !.execution_order = s.order,
                                          !.idx = 1, !.j = 1, !.context = ic,
                                          !.initial_context = ic,
                                          !.summary = NoSummary, !.returned = FALSE,
                                          !.seen = EmptyMap])
    /\ UNCHANGED callerVars

\* Lines 118-120, one dependency: any() reads its status and ends with True
\* when that is FAILED.
CheckDependency(c) ==
    /\ threads[c].pc = "loop"
    /\ InPass(c)
    /\ threads[c].j <= Len(NodeOf(c).depends_on)
    /\ Keeps(c, IF TaskOf(TasksOf(c), NodeOf(c).depends_on[threads[c].j]).status
                       \in SkipTriggers
                THEN [threads[c] EXCEPT !.pc = "skip"]
                ELSE [threads[c] EXCEPT !.j = @ + 1])
    /\ UNCHANGED callerVars

\* Lines 118-121: any() is past the last dependency, upstream_failed is False.
NoneFailed(c) ==
    /\ threads[c].pc = "loop"
    /\ InPass(c)
    /\ threads[c].j > Len(NodeOf(c).depends_on)
    /\ Keeps(c, [threads[c] EXCEPT !.pc = "merge", !.j = 1])
    /\ UNCHANGED callerVars

\* Lines 122-125.
StoreSkipped(c) ==
    /\ threads[c].pc = "skip"
    /\ Stores(c, SetStatus(TasksOf(c), NameOf(c), "skipped"),
              NextPass([threads[c] EXCEPT
                           !.summary.tasks = MapPut(@, NameOf(c), SkippedEntry)]))
    /\ UNCHANGED callerVars

\* Lines 128-129, one dependency: its result is read and merged.
MergeDependency(c) ==
    /\ threads[c].pc = "merge"
    /\ threads[c].j <= Len(NodeOf(c).depends_on)
    /\ Keeps(c, [threads[c] EXCEPT
                    !.context = Update(@, TaskOf(TasksOf(c),
                                                 NodeOf(c).depends_on[threads[c].j]).result),
                    !.j = @ + 1])
    /\ UNCHANGED callerVars

\* Line 132.
StoreRunning(c) ==
    /\ threads[c].pc = "merge"
    /\ threads[c].j > Len(NodeOf(c).depends_on)
    /\ Stores(c, SetStatus(TasksOf(c), NameOf(c), "running"),
              [threads[c] EXCEPT !.pc = "exec"])
    /\ UNCHANGED callerVars

\* Line 136: the call, and the store of task.result when it returns.
Call(c) ==
    /\ threads[c].pc = "exec"
    /\ LET i == IndexOf(TasksOf(c), NameOf(c))
           out == Apply(TasksOf(c)[i].execute_fn, threads[c].context)
           t == [threads[c] EXCEPT !.seen = MapPut(@, NameOf(c), threads[c].context)]
       IN  IF out.raised
           THEN Keeps(c, [t EXCEPT !.exc = out.exc, !.pc = "raised"])
           ELSE Stores(c, [TasksOf(c) EXCEPT ![i].result = IF out.none THEN EmptyMap
                                                           ELSE out.value],
                       [t EXCEPT !.pc = "returned"])
    /\ UNCHANGED callerVars

\* Line 137.
StoreSuccess(c) ==
    /\ threads[c].pc = "returned"
    /\ Stores(c, SetStatus(TasksOf(c), NameOf(c), "success"),
              [threads[c] EXCEPT !.pc = "entry"])
    /\ UNCHANGED callerVars

\* Line 139.
StoreFailed(c) ==
    /\ threads[c].pc = "raised"
    /\ Stores(c, SetStatus(TasksOf(c), NameOf(c), "failed"),
              [threads[c] EXCEPT !.pc = "error"])
    /\ UNCHANGED callerVars

\* Line 140.
StoreError(c) ==
    /\ threads[c].pc = "error"
    /\ Stores(c, [TasksOf(c) EXCEPT ![IndexOf(TasksOf(c), NameOf(c))].error =
                                        threads[c].exc],
              [threads[c] EXCEPT !.pc = "entry"])
    /\ UNCHANGED callerVars

\* Line 146: task.status is read for the summary entry.
ReadStatus(c) ==
    /\ threads[c].pc = "entry"
    /\ Keeps(c, [threads[c] EXCEPT !.status = NodeOf(c).status, !.pc = "entry_error"])
    /\ UNCHANGED callerVars

\* Lines 145-149: task.error is read, the entry is stored in the summary.
StoreEntry(c) ==
    /\ threads[c].pc = "entry_error"
    /\ Keeps(c, NextPass([threads[c] EXCEPT
                             !.summary.tasks =
                                 MapPut(@, NameOf(c),
                                        [status |-> threads[c].status, timed |-> TRUE,
                                         error |-> NodeOf(c).error])]))
    /\ UNCHANGED callerVars

\* Lines 151-154, one node: all() reads its status and ends with False when
\* that is not SUCCESS; the summary is returned.
CheckSuccess(c) ==
    /\ threads[c].pc = "loop"
    /\ ~InPass(c)
    /\ threads[c].j <= Len(TasksOf(c))
    /\ Keeps(c, IF TasksOf(c)[threads[c].j].status = "success"
                THEN [threads[c] EXCEPT !.j = @ + 1]
                ELSE [threads[c] EXCEPT !.summary.status = "failed",
                                        !.returned = TRUE, !.pc = "idle"])
    /\ UNCHANGED callerVars

\* Lines 151-154: all() is past the last node; the summary is returned.
AllSuccess(c) ==
    /\ threads[c].pc = "loop"
    /\ ~InPass(c)
    /\ threads[c].j > Len(TasksOf(c))
    /\ Keeps(c, [threads[c] EXCEPT !.summary.status = "completed",
                                   !.returned = TRUE, !.pc = "idle"])
    /\ UNCHANGED callerVars

\* The graphs two threads run at once: a and b, b with or without a as its
\* dependency.
ConcurrentGraphs ==
    { << TaskNode("a", fa, <<>>), TaskNode("b", fb, db) >> :
        fa \in Fns, fb \in Fns, db \in {<<>>, <<"a">>} }

\* One graph has been built; the second thread holds the same DAG object or
\* has built an equal one.
InitConcurrent ==
    /\ tasks \in ConcurrentGraphs
    /\ threads \in {<<Thread(TRUE, <<>>), Thread(TRUE, <<>>)>>,
                    <<Thread(TRUE, <<>>), Thread(FALSE, tasks)>>}
    /\ pc = "idle"
    /\ execution_order = <<>>
    /\ idx = 0
    /\ context = EmptyMap
    /\ initial_context = EmptyMap
    /\ summary = NoSummary
    /\ ret = [op |-> "add_task", kind |-> "ok", error |-> NoError]
    /\ before = <<>>
    /\ exec_log = <<>>
    /\ seen = EmptyMap
    /\ past_runs = {}
    /\ definitions = {}

\* The steps of the two runs, in any interleaving.
NextConcurrent ==
    \E c \in Callers :
        \/ \E ic \in InitialContexts : ThreadStart(c, ic)
        \/ CheckDependency(c)
        \/ NoneFailed(c)
        \/ StoreSkipped(c)
        \/ MergeDependency(c)
        \/ StoreRunning(c)
        \/ Call(c)
        \/ StoreSuccess(c)
        \/ StoreFailed(c)
        \/ StoreError(c)
        \/ ReadStatus(c)
        \/ StoreEntry(c)
        \/ CheckSuccess(c)
        \/ AllSuccess(c)

SpecConcurrent == InitConcurrent /\ [][NextConcurrent]_vars

\* A run's summary agrees with what the run itself did: a node is reported
\* skipped exactly if the run reported one of its dependencies failed, a
\* node that was not skipped is reported with the outcome of its logic on the
\* context the run called it with, and the summary returned is "completed"
\* exactly if every node is reported success.
Consistent(ts, t) ==
    /\ \A n \in DOMAIN t.summary.tasks :
          /\ t.summary.tasks[n].status = "skipped"
                <=> \E d \in Deps(ts, n) \cap DOMAIN t.summary.tasks :
                       t.summary.tasks[d].status = "failed"
          /\ t.summary.tasks[n].status # "skipped" =>
                /\ n \in DOMAIN t.seen
                /\ t.summary.tasks[n].status =
                      IF Apply(TaskOf(ts, n).execute_fn, t.seen[n]).raised
                      THEN "failed" ELSE "success"
    /\ t.returned =>
          /\ DOMAIN t.summary.tasks = TaskNames(ts)
          /\ t.summary.status = "completed"
                <=> \A n \in TaskNames(ts) : t.summary.tasks[n].status = "success"

\* C24: runs on independently constructed graph instances never affect each
\* other: when each of two threads runs a graph of its own, in any
\* interleaving of their reads and stores, the summary of each run agrees
\* with what that run executed, and no step of one thread changes the nodes
\* or the locals of the other.  On one shared instance a run can return a
\* summary that disagrees with what it executed (the witness).
C24_IndependentInstancesDoNotInterfere ==
    /\ [](~threads[2].shared =>
            /\ Consistent(tasks, threads[1])
            /\ Consistent(threads[2].tasks, threads[2]))
    /\ [][~threads[2].shared =>
            \/ threads'[2] = threads[2]
            \/ tasks' = tasks /\ threads'[1] = threads[1]]_vars

\* Two runs interleaved on one instance: the first has returned a summary
\* that reports b skipped although it reports a, the dependency of b that it
\* executed itself, as success; the second run had set a to FAILED.
C24_Witness ==
    /\ threads[2].shared
    /\ threads[1].returned
    /\ \E n \in DOMAIN threads[1].summary.tasks :
          /\ threads[1].summary.tasks[n].status = "skipped"
          /\ Deps(tasks, n) # {}
          /\ \A d \in Deps(tasks, n) :
                /\ d \in DOMAIN threads[1].seen
                /\ threads[1].summary.tasks[d].status = "success"
    /\ \E d \in DOMAIN threads[2].summary.tasks :
          threads[2].summary.tasks[d].status = "failed"

====
